---- MODULE Spec2Model ----
(***************************************************************************)
(* A model of botcat.py: the command line is parsed, standard input is     *)
(* read (as bytes for a media kind, as text otherwise), and every message  *)
(* is handed to send_message, which calls the telepot client until the     *)
(* call succeeds or the retry budget is used up.                           *)
(*                                                                         *)
(* An optional value (args before parsing, the frame of send_message, the  *)
(* client call in flight, the RuntimeError) is a sequence of length 0 or 1.*)
(***************************************************************************)
EXTENDS Integers, Sequences, FiniteSets, TLC

\* ---------------------------------------------------------------- bounds
\* longest standard input, in characters
MaxLen == 3
\* most client calls of one run
MaxCalls == 5

\* ------------------------------------------------------------ the inputs
NL == "\n"
Alphabet == {"a", NL}

RECURSIVE StringsUpTo(_)
StringsUpTo(n) ==
    IF n = 0 THEN {<<>>}
    ELSE LET shorter == StringsUpTo(n - 1)
         IN  shorter \cup {Append(s, c) : s \in {t \in shorter : Len(t) = n - 1}, c \in Alphabet}

Inputs == StringsUpTo(MaxLen)

\* the values of -r/--retries tried; <<>> is "option not given"
RetriesArguments ==
    { <<>>, <<"0">>, <<"1">>, <<"2">>, <<"3">>, <<"-", "1">>, <<"-", "0">>, <<"x">> }

Channels == {"@channel", "-1001"}

\* ------------------------------------------------------------------- state
VARIABLES
    argv,       \* the command line
    stdin,      \* the whole content of standard input
    pc,         \* where the program is
    args,       \* the parsed Namespace, <<>> before parsing
    pos,        \* offset of standard input: the characters consumed so far
    reads,      \* every read of standard input, in order
    frame,      \* the locals of the running send_message, <<>> outside it
    sends,      \* every send_message operation started, in order
    inflight,   \* the client call awaited, <<>> when none
    calls,      \* every client call that has finished, in order
    log,        \* traceback.print_exc() outputs: the message index of each
    delivered,  \* payloads of the messages the client accepted, in order
    error,      \* the RuntimeError raised by send_message, <<>> when none
    stream      \* the io.BytesIO of the last media attempt, <<>> before it

vars == <<argv, stdin, pc, args, pos, reads, frame, sends, inflight, calls,
          log, delivered, error, stream>>

\* ------------------------------------------------------ parse_command_line
DigitChars == {"0", "1", "2", "3", "4", "5", "6", "7", "8", "9"}

DigitVal(c) ==
    CASE c = "0" -> 0 [] c = "1" -> 1 [] c = "2" -> 2 [] c = "3" -> 3
      [] c = "4" -> 4 [] c = "5" -> 5 [] c = "6" -> 6 [] c = "7" -> 7
      [] c = "8" -> 8 [] c = "9" -> 9

\* int(argument) raises ValueError unless the text is [sign] digit+
IsIntLiteral(s) ==
    /\ Len(s) > 0
    /\ LET body == IF s[1] \in {"-", "+"} THEN Tail(s) ELSE s
       IN  /\ Len(body) > 0
           /\ \A i \in 1..Len(body) : body[i] \in DigitChars

RECURSIVE NatOf(_)
NatOf(d) ==
    IF d = <<>> THEN 0
    ELSE NatOf(SubSeq(d, 1, Len(d) - 1)) * 10 + DigitVal(d[Len(d)])

IntOf(s) ==
    IF s[1] = "-" THEN 0 - NatOf(Tail(s))
    ELSE IF s[1] = "+" THEN NatOf(Tail(s))
    ELSE NatOf(s)

\* check_negative with a fault: the sign check is left out
check_negative_unchecked(argument) ==
    IF ~IsIntLiteral(argument) THEN [ok |-> FALSE, value |-> 0]
    ELSE [ok |-> TRUE, value |-> IntOf(argument)]

\* check_negative: ok = FALSE stands for the ValueError of int() and for the
\* ArgumentTypeError, both of which argparse turns into a usage error
check_negative(argument) ==
    IF ~IsIntLiteral(argument) THEN [ok |-> FALSE, value |-> 0]
    ELSE IF IntOf(argument) < 0 THEN [ok |-> FALSE, value |-> 0]
    ELSE [ok |-> TRUE, value |-> IntOf(argument)]

\* default="1": argparse runs the type function on a string default
RetriesDefault == <<"1">>

MessageKinds == {"text", "photo", "audio", "document", "video", "voice"}

\* choices=("HTML", "Markdown"); "None" is the option not given
ParseModes == {"None", "HTML", "Markdown"}

\* -------------------------------------------------------------- the client
\* MESSAGE_TYPES with a fault: every kind is bound to sendMessage
MESSAGE_TYPES_all_text ==
    [k \in MessageKinds |-> [op |-> "sendMessage", wrapped |-> k # "text"]]

\* MESSAGE_TYPES: the outbound operation of each kind, and whether it is
\* wrapped by media_wrapper
MESSAGE_TYPES ==
    [k \in MessageKinds |->
        CASE k = "text"     -> [op |-> "sendMessage",  wrapped |-> FALSE]
          [] k = "photo"    -> [op |-> "sendPhoto",    wrapped |-> TRUE]
          [] k = "audio"    -> [op |-> "sendAudio",    wrapped |-> TRUE]
          [] k = "document" -> [op |-> "sendDocument", wrapped |-> TRUE]
          [] k = "video"    -> [op |-> "sendVideo",    wrapped |-> TRUE]
          [] k = "voice"    -> [op |-> "sendVoice",    wrapped |-> TRUE]]

\* media_wrapper with a fault: one stream is kept for all attempts, so an
\* attempt starts where the client stopped reading in the attempt before
media_wrapper_reused(media) ==
    [form |-> "stream", data |-> media.data,
     pos |-> IF stream = <<>> THEN 0 ELSE stream[1].pos]

\* media_wrapper: the client gets a new io.BytesIO over the bytes, at offset 0
media_wrapper(media) == [form |-> "stream", data |-> media.data, pos |-> 0]

\* what the client call of one attempt receives as its payload
ClientPayload(kind, message) ==
    IF MESSAGE_TYPES[kind].wrapped THEN media_wrapper(message)
    ELSE [form |-> message.form, data |-> message.data, pos |-> 0]

\* ------------------------------------------------------------------ Reader
RECURSIVE LineEnd(_, _)
\* the offset just after the line that starts at offset p
LineEnd(s, p) ==
    IF p >= Len(s) THEN Len(s)
    ELSE IF s[p + 1] = NL THEN p + 1
    ELSE LineEnd(s, p + 1)

\* Reader_readline with a fault: the terminator is dropped from the line
Reader_readline_stripped(s, p) ==
    LET e == LineEnd(s, p)
    IN  IF e > p /\ s[e] = NL THEN SubSeq(s, p + 1, e - 1) ELSE SubSeq(s, p + 1, e)

\* stream.readline(): the next line with its terminator, "" at end of stream
Reader_readline(s, p) == SubSeq(s, p + 1, LineEnd(s, p))

\* Reader_read with a fault: only the first line is read
Reader_read_one_line(s, p) == SubSeq(s, p + 1, LineEnd(s, p))

\* stream.read(): everything from the offset to the end of the stream
Reader_read(s, p) == SubSeq(s, p + 1, Len(s))

\* __anext__: the line sequence ends when readline gives the empty string
StopAsyncIteration(line) == line = <<>>

\* ------------------------------------------------------------ send_message
\* InitialBudget with a fault: the failures of earlier messages are taken
\* off the budget of the next one
InitialBudgetShared(a) ==
    IF a.retries - Len(log) > 0 THEN a.retries - Len(log) ELSE 1

\* retries = args.retries
InitialBudget(a) == a.retries

\* RetryForever with a fault: 0 is treated like any other count
RetryForeverNever(a) == FALSE

\* if args.retries == 0: continue
RetryForever(a) == a.retries = 0

\* Exhausted with a fault: the budget test comes one failure late
ExhaustedLate(r) == r < 0

\* if retries == 0: raise RuntimeError
Exhausted(r) == r = 0

\* ---------------------------------------------------------- transfer_stdin
\* TextKwargs with a fault: the keyword argument is not passed on
TextKwargsDropped(a) == [parse_mode |-> "absent"]

\* send_message(bot, args, ..., parse_mode=args.parse_mode)
TextKwargs(a) == [parse_mode |-> a.parse_mode]

\* send_message(bot, args, data): no keyword argument
MediaKwargs(a) == [parse_mode |-> "absent"]

\* where transfer_stdin goes on when send_message returns
Continuation(a) ==
    IF a.type = "text" /\ a.split_newlines THEN "next_line" ELSE "done"

\* OnRuntimeError with a fault: the error is swallowed by the caller
OnRuntimeErrorSwallowed(a) == Continuation(a)

\* the RuntimeError leaves transfer_stdin, run_until_complete and main
OnRuntimeError(a) == "failed"

\* OnSuccess with a fault: the loop of send_message is not left
OnSuccessNoBreak(a) == "attempt"

\* else: break
OnSuccess(a) == Continuation(a)

Init ==
    /\ argv \in [retries : RetriesArguments, type : MessageKinds,
                 parse_mode : ParseModes, split_newlines : BOOLEAN,
                 channel : Channels]
    /\ stdin \in Inputs
    /\ pc = "parse"
    /\ args = <<>>
    /\ pos = 0
    /\ reads = <<>>
    /\ frame = <<>>
    /\ sends = <<>>
    /\ inflight = <<>>
    /\ calls = <<>>
    /\ log = <<>>
    /\ delivered = <<>>
    /\ error = <<>>
    /\ stream = <<>>

\* main, line 140: args = parse_command_line()
parse_command_line ==
    /\ pc = "parse"
    /\ LET argument == IF argv.retries = <<>> THEN RetriesDefault ELSE argv.retries
           checked == check_negative(argument)
       IN  IF checked.ok
           THEN /\ args' = << [channel |-> argv.channel, type |-> argv.type,
                               parse_mode |-> argv.parse_mode,
                               split_newlines |-> argv.split_newlines,
                               retries |-> checked.value] >>
                /\ pc' = "transfer"
           ELSE /\ args' = args
                /\ pc' = "usage_error"
    /\ UNCHANGED <<argv, stdin, pos, reads, frame, sends, inflight, calls,
                   log, delivered, error, stream>>

\* the call of send_message(bot, args, message, **kwargs)
CallSendMessage(message, kwargs) ==
    /\ frame' = << [message |-> message, kwargs |-> kwargs,
                    retries |-> InitialBudget(args[1])] >>
    /\ sends' = Append(sends, [message |-> message, kwargs |-> kwargs])
    /\ pc' = "attempt"

\* transfer_stdin, lines 119-121: a media kind
transfer_media ==
    /\ pc = "transfer"
    /\ args[1].type # "text"
    /\ LET data == Reader_read(stdin, pos)
       IN  /\ pos' = pos + Len(data)
           /\ reads' = Append(reads, [op |-> "buffer.read", via |-> "loop",
                                       size |-> Len(data), calls |-> Len(calls)])
           /\ CallSendMessage([form |-> "bytes", data |-> data], MediaKwargs(args[1]))
    /\ UNCHANGED <<argv, stdin, args, inflight, calls, log, delivered, error, stream>>

\* transfer_stdin, lines 124-132: text, the whole input as one message
transfer_whole ==
    /\ pc = "transfer"
    /\ args[1].type = "text"
    /\ ~args[1].split_newlines
    /\ LET text == Reader_read(stdin, pos)
       IN  /\ pos' = pos + Len(text)
           /\ reads' = Append(reads, [op |-> "read", via |-> "executor",
                                       size |-> Len(text), calls |-> Len(calls)])
           /\ CallSendMessage([form |-> "str", data |-> text], TextKwargs(args[1]))
    /\ UNCHANGED <<argv, stdin, args, inflight, calls, log, delivered, error, stream>>

\* transfer_stdin, lines 124-127 and 135: text, line by line
transfer_lines ==
    /\ pc = "transfer"
    /\ args[1].type = "text"
    /\ args[1].split_newlines
    /\ pc' = "next_line"
    /\ UNCHANGED <<argv, stdin, args, pos, reads, frame, sends, inflight,
                   calls, log, delivered, error, stream>>

\* one round of "async for line in reader", lines 135-136 and 41-45
next_line ==
    /\ pc = "next_line"
    /\ LET line == Reader_readline(stdin, pos)
       IN  /\ pos' = pos + Len(line)
           /\ reads' = Append(reads, [op |-> "readline", via |-> "executor",
                                       size |-> Len(line), calls |-> Len(calls)])
           /\ IF StopAsyncIteration(line)
              THEN /\ pc' = "done"
                   /\ UNCHANGED <<frame, sends>>
              ELSE CallSendMessage([form |-> "str", data |-> line], TextKwargs(args[1]))
    /\ UNCHANGED <<argv, stdin, args, inflight, calls, log, delivered, error, stream>>

\* the most client calls of a run that the model follows: MaxCalls when the
\* retries never end; with a retry count R > 0 a message gets at most R calls,
\* so this cap is never reached
CallCap(a) ==
    IF a.retries > 0 THEN (a.retries + 1) * (MaxLen + 1) ELSE MaxCalls

\* send_message, lines 94-97: the client call is started and awaited
attempt ==
    /\ pc = "attempt"
    /\ Len(calls) < CallCap(args[1])
    /\ inflight' = << [op |-> MESSAGE_TYPES[args[1].type].op,
                       chat_id |-> args[1].channel,
                       payload |-> ClientPayload(args[1].type, frame[1].message),
                       parse_mode |-> frame[1].kwargs.parse_mode,
                       msg |-> Len(sends),
                       \* history: how far the stream of the attempt before
                       \* had been read when it was closed
                       prev_pos |-> IF stream = <<>> THEN 0 ELSE stream[1].pos] >>
    /\ stream' = IF MESSAGE_TYPES[args[1].type].wrapped
                 THEN << [data |-> ClientPayload(args[1].type, frame[1].message).data,
                          pos |-> ClientPayload(args[1].type, frame[1].message).pos,
                          closed |-> FALSE] >>
                 ELSE stream
    /\ pc' = "await"
    /\ UNCHANGED <<argv, stdin, args, pos, reads, frame, sends, calls, log,
                   delivered, error>>

\* the client reads some more bytes of the stream it was handed (lines 17-18)
client_reads ==
    /\ pc = "await"
    /\ inflight[1].payload.form = "stream"
    /\ \E n \in 1..(Len(stream[1].data) - stream[1].pos) :
           stream' = << [stream[1] EXCEPT !.pos = @ + n] >>
    /\ UNCHANGED <<argv, stdin, pc, args, pos, reads, frame, sends, inflight,
                   calls, log, delivered, error>>

FinishedCall(ok) ==
    [op |-> inflight[1].op, chat_id |-> inflight[1].chat_id,
     payload |-> inflight[1].payload, parse_mode |-> inflight[1].parse_mode,
     msg |-> inflight[1].msg, ok |-> ok]

\* media_wrapper, line 17: leaving the with block closes the stream
CloseStream ==
    stream' = IF inflight[1].payload.form = "stream"
              THEN << [stream[1] EXCEPT !.closed = TRUE] >>
              ELSE stream

\* send_message, lines 110-111: the call returned
client_returns ==
    /\ pc = "await"
    /\ calls' = Append(calls, FinishedCall(TRUE))
    /\ CloseStream
    /\ inflight' = <<>>
    /\ LET after == OnSuccess(args[1])
       IN  /\ pc' = after
           /\ IF after = "attempt"
              THEN UNCHANGED <<frame, delivered>>
              ELSE /\ frame' = <<>>
                   /\ delivered' = Append(delivered, frame[1].message)
    /\ UNCHANGED <<argv, stdin, args, pos, reads, sends, log, error>>

\* send_message, lines 98-109: the call raised
client_raises ==
    /\ pc = "await"
    /\ calls' = Append(calls, FinishedCall(FALSE))
    /\ CloseStream
    /\ inflight' = <<>>
    /\ log' = Append(log, inflight[1].msg)
    /\ IF RetryForever(args[1])
       THEN /\ pc' = "attempt"
            /\ UNCHANGED <<frame, error>>
       ELSE LET left == frame[1].retries - 1
            IN  IF Exhausted(left)
                THEN /\ error' = << [message |-> frame[1].message,
                                     retries |-> args[1].retries,
                                     msg |-> inflight[1].msg,
                                     calls |-> Len(calls) + 1] >>
                     /\ frame' = <<>>
                     /\ pc' = OnRuntimeError(args[1])
                ELSE /\ frame' = << [frame[1] EXCEPT !.retries = left] >>
                     /\ pc' = "attempt"
                     /\ UNCHANGED error
    /\ UNCHANGED <<argv, stdin, args, pos, reads, sends, delivered>>

Next ==
    \/ parse_command_line
    \/ transfer_media
    \/ transfer_whole
    \/ transfer_lines
    \/ next_line
    \/ attempt
    \/ client_reads
    \/ client_returns
    \/ client_raises

Spec == Init /\ [][Next]_vars

\* the event loop runs the coroutine whenever it can go on, and every client
\* call returns or raises
FairSpec == Spec /\ WF_vars(Next)

\* ------------------------------------------------- helpers of the properties
\* the configured retry count of a run whose arguments were accepted
Parsed == args # <<>>
R == args[1].retries

\* the finished client calls of the m-th message, in order
CallsOf(m) == SelectSeq(calls, LAMBDA c : c.msg = m)
FailuresOf(m) == Len(SelectSeq(calls, LAMBDA c : c.msg = m /\ ~c.ok))
LogsOf(m) == Len(SelectSeq(log, LAMBDA l : l = m))
InflightFor(m) == inflight # <<>> /\ inflight[1].msg = m

\* the lines of a text, each with its terminator when it has one
FirstBreak(s) ==
    IF \E i \in 1..Len(s) : s[i] = NL
    THEN CHOOSE i \in 1..Len(s) : s[i] = NL /\ \A j \in 1..(i - 1) : s[j] # NL
    ELSE Len(s)

RECURSIVE LinesOf(_)
LinesOf(s) ==
    IF s = <<>> THEN <<>>
    ELSE <<SubSeq(s, 1, FirstBreak(s))>> \o LinesOf(SubSeq(s, FirstBreak(s) + 1, Len(s)))

IsMedia == argv.type # "text"
SplitText == argv.type = "text" /\ argv.split_newlines
WholeText == argv.type = "text" /\ ~argv.split_newlines
InTransfer == pc \in {"attempt", "await", "next_line", "done", "failed"}

\* the outbound operation the documentation names for each kind
OperationOfKind(k) ==
    CASE k = "text" -> "sendMessage" [] k = "photo" -> "sendPhoto"
      [] k = "audio" -> "sendAudio" [] k = "document" -> "sendDocument"
      [] k = "video" -> "sendVideo" [] k = "voice" -> "sendVoice"

\* every client call started so far, the one in flight included
Attempts ==
    calls \o (IF inflight = <<>> THEN <<>>
              ELSE << [op |-> inflight[1].op, chat_id |-> inflight[1].chat_id,
                       payload |-> inflight[1].payload,
                       parse_mode |-> inflight[1].parse_mode,
                       msg |-> inflight[1].msg, ok |-> FALSE] >>)

ThmC2 ==
    (Parsed /\ R = 0) =>
        /\ error = <<>>
        /\ pc # "failed"
        /\ (frame # <<>> => frame[1].retries = 0)
        /\ (calls # <<>> /\ ~calls[Len(calls)].ok) =>
               /\ pc \in {"attempt", "await"}
               /\ frame # <<>>
               /\ Len(sends) = calls[Len(calls)].msg
               /\ frame[1].message = sends[Len(sends)].message

WitC2 ==
    /\ Parsed /\ R = 0
    /\ Len(calls) >= 3
    /\ \A i \in 1..Len(calls) : ~calls[i].ok /\ calls[i].msg = 1
    /\ InflightFor(1)

\* C3: with retry count R > 0 a message that keeps failing gets R + 1 client
\* calls (the first attempt and R retries) before the RuntimeError.
CexC3 ==
    (Parsed /\ R > 0 /\ error # <<>>) => Len(CallsOf(error[1].msg)) = R + 1

\* C4: text, line by line: the messages accepted are at every moment the first
\* lines of the input, each with its terminator, in input order; a run that
\* ends normally has delivered all N lines and is at the end of the stream.
ThmC4 ==
    SplitText =>
        LET lines == LinesOf(stdin)
        IN  /\ Len(delivered) <= Len(lines)
            /\ \A k \in 1..Len(delivered) :
                   delivered[k] = [form |-> "str", data |-> lines[k]]
            /\ \A k \in 1..Len(sends) :
                   k <= Len(lines) /\ sends[k].message.data = lines[k]
            /\ pc = "done" => (Len(delivered) = Len(lines) /\ pos = Len(stdin))

WitC4 ==
    /\ SplitText
    /\ pc = "done"
    /\ Len(delivered) >= 2
    /\ \E k \in 1..Len(delivered) : delivered[k].data = <<NL>>
    /\ stdin[Len(stdin)] # NL

\* C5: text, not split: exactly one send_message operation occurs, and its
\* payload, also the payload of every client call, is the whole input.
ThmC5 ==
    WholeText =>
        /\ Len(sends) <= 1
        /\ InTransfer =>
               /\ Len(sends) = 1
               /\ sends[1].message = [form |-> "str", data |-> stdin]
        /\ \A i \in 1..Len(Attempts) :
               /\ Attempts[i].msg = 1
               /\ Attempts[i].payload.form = "str"
               /\ Attempts[i].payload.data = stdin
        /\ pc = "done" => delivered = << [form |-> "str", data |-> stdin] >>

WitC5 ==
    /\ WholeText
    /\ pc = "done"
    /\ Len(LinesOf(stdin)) >= 2
    /\ delivered = << [form |-> "str", data |-> stdin] >>

\* C6: a media kind: all bytes of the input go to exactly one send_message
\* operation whose client calls use the operation of that kind, whatever the
\* split-newlines flag; no line is read and sendMessage is never called.
ThmC6 ==
    IsMedia =>
        /\ Len(sends) <= 1
        /\ InTransfer =>
               /\ Len(sends) = 1
               /\ sends[1].message = [form |-> "bytes", data |-> stdin]
        /\ \A i \in 1..Len(Attempts) :
               /\ Attempts[i].msg = 1
               /\ Attempts[i].op = OperationOfKind(argv.type)
               /\ Attempts[i].op # "sendMessage"
               /\ Attempts[i].payload.data = stdin
        /\ \A i \in 1..Len(reads) : reads[i].op = "buffer.read"
        /\ Len(reads) <= 1

WitC6 ==
    /\ argv.type = "voice"
    /\ argv.split_newlines
    /\ Len(LinesOf(stdin)) >= 2
    /\ pc = "done"
    /\ Len(calls) >= 2
    /\ delivered = << [form |-> "bytes", data |-> stdin] >>

\* C7 as stated: every client call of every kind carries the configured
\* destination and the configured parse mode.
CexC7 ==
    \A i \in 1..Len(Attempts) :
        /\ Attempts[i].chat_id = argv.channel
        /\ \/ Attempts[i].parse_mode = argv.parse_mode
           \/ argv.parse_mode = "None" /\ Attempts[i].parse_mode = "absent"

\* C7, amended: every client call of every kind carries the configured
\* destination; every call of a text message, first or retried, carries the
\* configured parse mode; a call of a media kind carries no parse mode.
ThmC7 ==
    \A i \in 1..Len(Attempts) :
        /\ Attempts[i].chat_id = argv.channel
        /\ argv.type = "text" => Attempts[i].parse_mode = argv.parse_mode
        /\ argv.type # "text" => Attempts[i].parse_mode = "absent"

WitC7 ==
    /\ argv.type = "text"
    /\ argv.parse_mode = "Markdown"
    /\ argv.channel = "-1001"
    /\ Len(calls) >= 2
    /\ ~calls[1].ok
    /\ calls[2].msg = calls[1].msg
    /\ calls[2].parse_mode = "Markdown"

\* C8: once the RuntimeError is raised the run is over: no call is in flight
\* and no client call, send_message operation or read is made after it.
ThmC8 ==
    error # <<>> =>
        /\ pc = "failed"
        /\ inflight = <<>>
        /\ frame = <<>>
        /\ Len(calls) = error[1].calls
        /\ Len(sends) = error[1].msg
        /\ ~calls[Len(calls)].ok
        /\ \A i \in 1..Len(reads) : reads[i].calls < error[1].calls

WitC8 ==
    /\ SplitText
    /\ error # <<>>
    /\ error[1].msg = 1
    /\ pos < Len(stdin)

\* C9: a successful call is the last call of its message; a message whose
\* first call succeeds has exactly one call and no failure log; the failure
\* logs of a message are as many as its failed calls.
ThmC9 ==
    \A m \in 1..Len(sends) :
        LET cs == CallsOf(m)
        IN  /\ \A i \in 1..Len(cs) : cs[i].ok => (i = Len(cs) /\ ~InflightFor(m))
            /\ (Len(cs) >= 1 /\ cs[1].ok) => (Len(cs) = 1 /\ LogsOf(m) = 0)
            /\ LogsOf(m) = FailuresOf(m)
            /\ (Len(cs) >= 1 /\ cs[Len(cs)].ok) => (m < Len(sends) \/ frame = <<>>)

WitC9 ==
    /\ Len(sends) >= 2
    /\ Len(CallsOf(1)) = 1 /\ calls[1].ok
    /\ Len(CallsOf(2)) >= 2
    /\ calls[Len(calls)].ok
    /\ LogsOf(2) >= 1
    /\ frame = <<>>

\* C10: a negative --retries value ends the run in the usage error before any
\* read and any client call; a run that gets past parsing has retries >= 0.
ThmC10 ==
    /\ pc \notin {"parse", "usage_error"} => (Parsed /\ R >= 0)
    /\ pc = "usage_error" =>
           (args = <<>> /\ reads = <<>> /\ sends = <<>> /\ calls = <<>>
            /\ inflight = <<>> /\ pos = 0)
    /\ (argv.retries = <<"-", "1">> /\ pc # "parse") => pc = "usage_error"

WitC10 ==
    /\ argv.retries = <<"-", "1">>
    /\ pc = "usage_error"

\* C11: client calls are made one at a time and in input order: a call is in
\* flight only while send_message awaits it, the calls of message k all come
\* before the calls of message k+1, and the first call of message k+1 comes
\* only after a successful call of message k.
ThmC11 ==
    /\ Len(inflight) <= 1
    /\ (inflight # <<>>) = (pc = "await")
    /\ inflight # <<>> => (frame # <<>> /\ inflight[1].msg = Len(sends))
    /\ Len(delivered) >= Len(sends) - 1
    /\ \A i \in 1..Len(Attempts) :
           /\ Attempts[i].msg \in 1..Len(sends)
           /\ Attempts[i].payload.data = sends[Attempts[i].msg].message.data
    /\ \A i \in 1..(Len(Attempts) - 1) :
           \/ Attempts[i + 1].msg = Attempts[i].msg /\ ~Attempts[i].ok
           \/ Attempts[i + 1].msg = Attempts[i].msg + 1 /\ Attempts[i].ok

WitC11 ==
    /\ Len(calls) >= 3
    /\ ~calls[1].ok /\ calls[2].ok /\ calls[2].msg = 1
    /\ ~calls[3].ok /\ calls[3].msg = 2
    /\ InflightFor(2)

\* C12: the configured retry count is the one given on the command line for
\* the whole run, and the budget of the running send_message is that count
\* less the failures of its own message only (the count itself when it is 0):
\* every message starts with the full budget.
ThmC12 ==
    Parsed =>
        /\ R = IntOf(IF argv.retries = <<>> THEN <<"1">> ELSE argv.retries)
        /\ frame # <<>> =>
               frame[1].retries = IF R = 0 THEN 0 ELSE R - FailuresOf(Len(sends))

WitC12 ==
    /\ Parsed /\ R = 2
    /\ Len(sends) = 2
    /\ FailuresOf(1) = 1
    /\ FailuresOf(2) = 0
    /\ frame # <<>> /\ frame[1].retries = 2

\* C13: the state of a message moves only Pending -> Attempting ->
\* {Attempting, Sent, Failed}; after a failed call the message is attempted
\* again exactly when the count is 0 or the decremented budget is positive,
\* and is Failed otherwise, which ends the run; Sent and Failed are final; the
\* next message starts only when the one before it is Sent.
MsgState(m) ==
    IF m > Len(sends) THEN "Pending"
    ELSE IF error # <<>> /\ error[1].msg = m THEN "Failed"
    ELSE IF \E i \in 1..Len(calls) : calls[i].msg = m /\ calls[i].ok THEN "Sent"
    ELSE "Attempting"

MsgStep(m) ==
    LET a == MsgState(m)
        b == MsgState(m)'
    IN  /\ a = "Pending" => b \in {"Pending", "Attempting"}
        /\ a = "Attempting" => b \in {"Attempting", "Sent", "Failed"}
        /\ a = "Sent" => b = "Sent"
        /\ a = "Failed" => b = "Failed"
        /\ (a = "Attempting" /\ FailuresOf(m)' > FailuresOf(m)) =>
               /\ b \in {"Attempting", "Failed"}
               /\ (b = "Attempting") = (R = 0 \/ frame[1].retries - 1 > 0)
               /\ b = "Attempting" =>
                      (pc' = "attempt" /\ frame' # <<>> /\ Len(sends') = m
                       /\ frame'[1].message = frame[1].message)
               /\ b = "Failed" => pc' = "failed"
        /\ (a = "Pending" /\ b = "Attempting" /\ m > 1) => MsgState(m - 1) = "Sent"

ThmC13 == [][\A m \in 1..Len(sends') : MsgStep(m)]_vars

WitC13 ==
    /\ Parsed /\ R = 3
    /\ Len(sends) = 2
    /\ MsgState(1) = "Sent" /\ FailuresOf(1) = 1
    /\ MsgState(2) = "Failed" /\ FailuresOf(2) = 3

\* C14: with retry count R > 0 every run ends, done or failed, and makes at
\* most R * M client calls for an input of M messages; a run that is done has
\* delivered all M messages, a failed run has raised the RuntimeError; with
\* retry count 0 a run ends only with all M messages accepted.
Messages == IF SplitText THEN Len(LinesOf(stdin)) ELSE 1
Terminated == pc \in {"done", "failed"}

CexC15 == \A i \in 1..Len(reads) : reads[i].via = "executor"

\* C16: a media kind: every client call, first or retried, is handed a stream
\* over all bytes of the input at offset 0, the same as the first call got,
\* however far the stream of the attempt before had been read; the stream is
\* open during the call and closed after it.
ThmC16 ==
    IsMedia =>
        /\ \A i \in 1..Len(Attempts) :
               /\ Attempts[i].payload = [form |-> "stream", data |-> stdin, pos |-> 0]
               /\ Attempts[i].payload = Attempts[1].payload
        /\ stream # <<>> =>
               /\ stream[1].data = stdin
               /\ stream[1].closed = (pc # "await")
        /\ (stream = <<>>) = (Attempts = <<>>)

WitC16 ==
    /\ IsMedia
    /\ Len(calls) >= 1
    /\ ~calls[Len(calls)].ok
    /\ inflight # <<>>
    /\ inflight[1].prev_pos > 0
    /\ inflight[1].prev_pos < Len(stdin)
    /\ inflight[1].payload.pos = 0
    /\ stream[1].pos = 0

\* C17: text, line by line: the readline calls are at most one more than the
\* messages delivered, so line k+1 is read only after message k was accepted;
\* the offset of standard input is the end of the last line read; after the
\* RuntimeError on message k no line after the k-th has been read.
RECURSIVE LengthOfLines(_, _)
LengthOfLines(lines, k) ==
    IF k = 0 THEN 0 ELSE LengthOfLines(lines, k - 1) + Len(lines[k])

ThmC17 ==
    SplitText =>
        LET lines == LinesOf(stdin)
            n == IF Len(reads) <= Len(lines) THEN Len(reads) ELSE Len(lines)
        IN  /\ Len(reads) <= Len(delivered) + 1
            /\ Len(reads) <= Len(lines) + 1
            /\ Len(sends) = n
            /\ \A i \in 1..Len(reads) : reads[i].op = "readline"
            /\ pos = LengthOfLines(lines, n)
            /\ error # <<>> =>
                   (Len(reads) = error[1].msg /\ pos = LengthOfLines(lines, error[1].msg))

WitC17 ==
    /\ SplitText
    /\ Len(LinesOf(stdin)) = 3
    /\ error # <<>>
    /\ error[1].msg = 2
    /\ Len(reads) = 2
    /\ pos < Len(stdin)

====
